---- MODULE Spec2Model ----
(***************************************************************************)
(* Melody composition engine of the Music repository (src/src/melody.py,   *)
(* src/src/generator.py).                                                  *)
(*                                                                         *)
(* Conventions of the model                                                *)
(*  - Times and durations are exact rationals counted in ticks,            *)
(*    TicksPerBeat ticks to the beat (the code uses Python floats).        *)
(*  - Probabilities, legato and the uniqueness score are exact rationals:  *)
(*    probabilities and legato in percent, the score as a reduced fraction *)
(*    <<numerator, denominator>>.                                          *)
(*  - The module-level generator of Python's `random` is a variable `rng`. *)
(*    random.seed(s) sets it to a function of s, every library draw        *)
(*    (random(), choice, randint, one selection of sample) advances it by  *)
(*    one step and yields a raw value in 0..RandRes-1 that is a function   *)
(*    of the state.  Every function of the engine that draws takes the     *)
(*    sequence of raw values the generator will yield (`draws`) and        *)
(*    reports how many of them it consumed.                                *)
(***************************************************************************)
EXTENDS Integers, Sequences, FiniteSets, TLC

VARIABLES
    pc,              \* position of the caller / of generate_melody
    rng,             \* state of the module-level random generator
    params,          \* generate_melody: params
    seed,            \* generate_melody: seed (None or an integer)
    scale,           \* generate_melody: scale
    total_beats,     \* generate_melody: total_beats
    melody,          \* generate_melody: melody (the draft; Melody record)
    current_time,    \* generate_melody: current_time, in ticks
    motifs_used,     \* generate_melody: motifs_used
    pattern_counts,  \* generate_melody: pattern_counts (hash -> count)
    motif,           \* generate_melody: the candidate motif of the last iteration
    kept,            \* whether that candidate was appended to the melody
    best_melody,     \* optimize_melody: best_melody
    best_score,      \* optimize_melody: best_score
    iter,            \* optimize_melody: iterations of the for loop done
    max_iterations,  \* optimize_melody: max_iterations
    best_is_input,   \* optimize_melody: best_melody is the object passed in
    result,          \* the Melody returned by the last completed call
    ref,             \* the first completed seeded call: params, seed, result
    entry,           \* history: what the caller found at entry (see Enter)
    presets,         \* module state: the MelodyParams objects of GENRE_PRESETS
    genre,           \* which of those objects params is (None: the caller's own)
    held,            \* history: a melody returned earlier and the preset object
                     \* its params field is
    other,           \* a second thread in generate_melody: None, or the number
                     \* of draws it has made since its random.seed
    pipeline,        \* a MusicPipeline object: melody, arrangement,
                     \* production_result (None before construction)
    stage,           \* the PipelineStage the last stage_* call returned
    run,             \* run_full_pipeline: its position and its PipelineResult
    call,            \* function laboratory: the inputs of one call
    ret              \* function laboratory: the value the call returned

vars == <<pc, rng, params, seed, scale, total_beats, melody, current_time,
          motifs_used, pattern_counts, motif, kept, best_melody, best_score,
          iter, max_iterations, best_is_input, result, ref, entry, presets, genre, held,
          other, pipeline, stage, run, call, ret>>

engineVars == <<pc, rng, params, seed, scale, total_beats, melody,
                current_time, motifs_used, pattern_counts, motif, kept,
                best_melody, best_score, iter, max_iterations, best_is_input, result, ref,
                entry, presets, genre, held, other, pipeline, stage, run>>

\* What a step inside generate_melody or optimize_melody leaves alone.
restVars == <<presets, genre, held, other, pipeline, stage, run>>

\* The state of the stage pipeline (music_pipeline.py).
pipelineVars == <<pipeline, stage, run>>

\* Python's None, and an optional value x, as sequences of length 0 and 1.
None == <<>>

Some(x) == <<x>>

(***************************************************************************)
(* Bounds of the model                                                     *)
(***************************************************************************)
RngMod == 64        \* number of states of the modelled generator
RandRes == 20       \* resolution of one raw draw: raw in 0..RandRes-1
MaxSeed == 1        \* explicit seeds are 0..MaxSeed
MaxLabNotes == 5    \* longest note list handed to a function on its own
MaxOctave == 6      \* octaves handed to get_scale_notes are 3..MaxOctave

TicksPerBeat == 4 * 20 * 4

(***************************************************************************)
(* Generic helpers                                                         *)
(***************************************************************************)
Abs(x) == IF x < 0 THEN -x ELSE x

Max(a, b) == IF a >= b THEN a ELSE b

Min(a, b) == IF a <= b THEN a ELSE b

RECURSIVE GCD(_, _)
GCD(a, b) == IF b = 0 THEN a ELSE GCD(b, a % b)

\* The float n / d of two small non-negative integers, as a reduced fraction.
Frac(n, d) == LET g == GCD(n, d) IN <<n \div g, d \div g>>

FracLess(x, y) == x[1] * y[2] < y[1] * x[2]

RECURSIVE SumSeq(_)
SumSeq(s) == IF s = <<>> THEN 0 ELSE Head(s) + SumSeq(Tail(s))

Reverse(s) == [i \in 1..Len(s) |-> s[Len(s) + 1 - i]]

(***************************************************************************)
(* The random module                                                       *)
(***************************************************************************)
\* One step of the generator (a full-period congruential generator).
RngStep(s) == (5 * s + 3) % RngMod

\* The raw value a draw yields in state s.
RngOut(s) == (s * RandRes) \div RngMod

\* random.seed(seed): the state is a function of the seed alone.
RngSeed(sd) == (37 * sd + 11) % RngMod

RECURSIVE RngAfter(_, _)
RngAfter(s, n) == IF n = 0 THEN s ELSE RngAfter(RngStep(s), n - 1)

\* The next n raw values the generator yields from state s.
RECURSIVE Stream(_, _)
Stream(s, n) ==
    IF n = 0 THEN <<>> ELSE <<RngOut(RngStep(s))>> \o Stream(RngStep(s), n - 1)

Raw == 0..(RandRes - 1)

\* random.random() < pct / 100, for the raw value of the draw
RandomLess(raw, pct) == raw * 100 < pct * RandRes

\* random.randrange(n) for the raw value of the draw
RandBelow(raw, n) == (raw * n) \div RandRes

\* random.choice(seq)
Choice(seq, raw) == seq[RandBelow(raw, Len(seq)) + 1]

\* random.randint(a, b)
RandInt(a, b, raw) == a + RandBelow(raw, b - a + 1)

(***************************************************************************)
(* generator.py: scales                                                    *)
(***************************************************************************)
NOTE_MAP ==
    [n \in {"C", "C#", "Db", "D", "D#", "Eb", "E", "F", "F#", "Gb", "G",
            "G#", "Ab", "A", "A#", "Bb", "B"} |->
        CASE n = "C" -> 60
          [] n \in {"C#", "Db"} -> 61
          [] n = "D" -> 62
          [] n \in {"D#", "Eb"} -> 63
          [] n = "E" -> 64
          [] n = "F" -> 65
          [] n \in {"F#", "Gb"} -> 66
          [] n = "G" -> 67
          [] n \in {"G#", "Ab"} -> 68
          [] n = "A" -> 69
          [] n \in {"A#", "Bb"} -> 70
          [] n = "B" -> 71]

SCALES ==
    [m \in {"major", "minor", "pentatonic_major", "pentatonic_minor", "dorian"} |->
        CASE m = "major" -> <<0, 2, 4, 5, 7, 9, 11>>
          [] m = "minor" -> <<0, 2, 3, 5, 7, 8, 10>>
          [] m = "pentatonic_major" -> <<0, 2, 4, 7, 9>>
          [] m = "pentatonic_minor" -> <<0, 3, 5, 7, 10>>
          [] m = "dorian" -> <<0, 2, 3, 5, 7, 9, 10>>]

\* A plausible slip: the octave of NOTE_MAP taken to be 5 instead of 4.
get_scale_notes_octave5(root, mode, octave) ==
    LET root_midi == (IF root \in DOMAIN NOTE_MAP THEN NOTE_MAP[root] ELSE 60)
                     + (octave - 5) * 12
        scale_intervals == IF mode \in DOMAIN SCALES THEN SCALES[mode]
                           ELSE SCALES["major"]
    IN  [i \in 1..Len(scale_intervals) |-> root_midi + scale_intervals[i]]

\* A plausible slip: an unknown mode falls back to the minor table.
get_scale_notes_minor_default(root, mode, octave) ==
    LET root_midi == (IF root \in DOMAIN NOTE_MAP THEN NOTE_MAP[root] ELSE 60)
                     + (octave - 4) * 12
        scale_intervals == IF mode \in DOMAIN SCALES THEN SCALES[mode]
                           ELSE SCALES["minor"]
    IN  [i \in 1..Len(scale_intervals) |-> root_midi + scale_intervals[i]]

get_scale_notes(root, mode, octave) ==
    LET root_midi == (IF root \in DOMAIN NOTE_MAP THEN NOTE_MAP[root] ELSE 60)
                     + (octave - 4) * 12
        scale_intervals == IF mode \in DOMAIN SCALES THEN SCALES[mode]
                           ELSE SCALES["major"]
    IN  [i \in 1..Len(scale_intervals) |-> root_midi + scale_intervals[i]]

\* min(scale, key=lambda x: abs(x - target)): the first closest member.
RECURSIVE SnapFrom(_, _, _, _)
SnapFrom(sc, target, i, best) ==
    IF i > Len(sc) THEN best
    ELSE SnapFrom(sc, target, i + 1,
                  IF Abs(sc[i] - target) < Abs(best - target) THEN sc[i] ELSE best)

Snap(sc, target) == SnapFrom(sc, target, 2, sc[1])

(***************************************************************************)
(* melody.py: data model                                                   *)
(***************************************************************************)
ContourList == <<"arch", "descending", "ascending", "wave", "static">>

MotifDevelopmentList ==
    <<"exact", "transposed", "inverted", "retrograde", "augmented",
      "diminished", "varied">>

MelodyNote(pitch, start_time, duration, velocity) ==
    [pitch |-> pitch, start_time |-> start_time, duration |-> duration,
     velocity |-> velocity]

Motif(notes, contour) == [notes |-> notes, contour |-> contour]

Melody(notes, motifs, p, score) ==
    [notes |-> notes, motifs |-> motifs, params |-> p, uniqueness_score |-> score]

\* MelodyParams(), the dataclass defaults.
MelodyParams ==
    [root_note |-> "C", mode |-> "major", tempo |-> 70, duration_seconds |-> 60,
     octave |-> 5, contour |-> "arch", use_motifs |-> TRUE, motif_length |-> 4,
     development_probability |-> 60, max_repetition |-> 2,
     time_signature |-> <<4, 4>>, syncopation |-> 20,
     velocity_range |-> <<50, 80>>, legato |-> 70]

\* The interval signature of a note list.
Intervals(notes) ==
    [i \in 1..(Len(notes) - 1) |-> notes[i + 1].pitch - notes[i].pitch]

\* Motif.get_hash: a truncated digest of str(intervals).  The digest is
\* modelled as a positional code of the list reduced to a finite range: it
\* is a function of the interval list alone and, like the 8 hex digits of
\* the code, it can collide.
RECURSIVE Digest(_, _)
Digest(ivs, h) ==
    IF ivs = <<>> THEN h
    ELSE Digest(Tail(ivs), (h * 61 + (Head(ivs) + 30)) % (2 ^ 20))

\* A plausible slip: the digest taken of the pitches instead of the intervals.
get_hash_of_pitches(m) ==
    Digest([i \in 1..Len(m.notes) |-> m.notes[i].pitch - 60], 1)

get_hash(m) == Digest(Intervals(m.notes), 1)

(***************************************************************************)
(* melody.py: generate_contour                                             *)
(***************************************************************************)
\* A plausible slip: the middle of the arch placed one step late.
generate_contour_mid_late(contour_type, length, draws) ==
    LET mid == length \div 2 + 1
    IN  [i \in 1..length |->
            IF i <= mid THEN Choice(<<1, 2, 3>>, draws[i])
            ELSE Choice(<<-1, -2, -3>>, draws[i])]

\* draws[i] is the raw value of the i-th random.choice; length draws are used.
generate_contour(contour_type, length, draws) ==
    CASE contour_type = "arch" ->
            LET mid == length \div 2
            IN  [i \in 1..length |->
                    IF i <= mid THEN Choice(<<1, 2, 3>>, draws[i])
                    ELSE Choice(<<-1, -2, -3>>, draws[i])]
      [] contour_type = "descending" ->
            [i \in 1..length |-> Choice(<<-1, -2, 0, -1>>, draws[i])]
      [] contour_type = "ascending" ->
            [i \in 1..length |-> Choice(<<1, 2, 0, 1>>, draws[i])]
      [] contour_type = "wave" ->
            \* direction starts at 1 and flips whenever i % 3 = 0 (i from 0)
            [i \in 1..length |->
                (IF (((i - 1) \div 3) + 1) % 2 = 1 THEN -1 ELSE 1)
                    * Choice(<<1, 2>>, draws[i])]
      [] OTHER ->
            [i \in 1..length |-> Choice(<<-1, 0, 1, 0>>, draws[i])]

(***************************************************************************)
(* melody.py: generate_motif                                               *)
(***************************************************************************)
\* The stored duration of a note: duration * params.legato, in ticks.
\* quarters is the drawn duration in quarter beats (0.5 -> 2, 0.75 -> 3, ...).
\* A plausible slip: legato subtracted from the duration.
NoteDuration_minus_legato(quarters, p) ==
    (quarters * TicksPerBeat) \div 4 - (p.legato * TicksPerBeat) \div 100

NoteDuration(quarters, p) ==
    (((quarters * TicksPerBeat) \div 4) * p.legato) \div 100

\* The loop over the contour: note i (from 1) uses the four draws after
\* the contour's own: color note, syncopation, duration, velocity.
RECURSIVE MotifNotes(_, _, _, _, _, _, _, _)
MotifNotes(sc, contour, p, draws, i, current_pitch, ctime, notes) ==
    IF i > Len(contour) THEN notes
    ELSE
        LET base == Len(contour) + 4 * (i - 1)
            target_pitch == current_pitch + contour[i]
            closest_scale_pitch == Snap(sc, target_pitch)
            pitch == IF RandomLess(draws[base + 1], 10) THEN target_pitch
                     ELSE closest_scale_pitch
            quarters == IF RandomLess(draws[base + 2], p.syncopation)
                        THEN Choice(<<2, 3>>, draws[base + 3])
                        ELSE Choice(<<2, 4, 6>>, draws[base + 3])
            velocity == RandInt(p.velocity_range[1], p.velocity_range[2],
                                draws[base + 4])
            note == MelodyNote(pitch, ctime, NoteDuration(quarters, p), velocity)
        IN  MotifNotes(sc, contour, p, draws, i + 1, pitch,
                       ctime + (quarters * TicksPerBeat) \div 4,
                       Append(notes, note))

\* Number of draws generate_motif consumes.
MotifDraws(length) == 5 * length

generate_motif(sc, start_pitch, length, contour_type, p, draws) ==
    LET contour == generate_contour(contour_type, length, draws)
    IN  Motif(MotifNotes(sc, contour, p, draws, 1, start_pitch, 0, <<>>), contour)

(***************************************************************************)
(* melody.py: develop_motif                                                *)
(***************************************************************************)
\* The loop over motif.notes.  k is the number of draws consumed so far
\* (only VARIED draws).  Returns [notes, used].
RECURSIVE DevelopNotes(_, _, _, _, _, _, _, _, _)
DevelopNotes(m, development, sc, start_time, transposition, draws, i, k, new_notes) ==
    IF i > Len(m.notes) THEN [notes |-> new_notes, used |-> k]
    ELSE
        LET note == m.notes[i]
            jitter == development = "varied" /\ RandomLess(draws[k + 1], 30)
            new_pitch ==
                CASE development = "transposed" ->
                        Snap(sc, note.pitch + transposition)
                  [] development = "inverted" /\ i > 1 ->
                        new_notes[Len(new_notes)].pitch
                            - (note.pitch - m.notes[i - 1].pitch)
                  [] jitter ->
                        Snap(sc, note.pitch + Choice(<<-2, -1, 1, 2>>, draws[k + 2]))
                  [] OTHER -> note.pitch
            new_duration ==
                CASE development = "augmented" -> (note.duration * 3) \div 2
                  [] development = "diminished" -> (note.duration * 3) \div 4
                  [] OTHER -> note.duration
            k2 == IF development = "varied" THEN (IF jitter THEN k + 2 ELSE k + 1)
                  ELSE k
        IN  DevelopNotes(m, development, sc, start_time, transposition, draws,
                         i + 1, k2,
                         Append(new_notes,
                                MelodyNote(new_pitch,
                                           start_time + (note.start_time
                                                         - m.notes[1].start_time),
                                           new_duration, note.velocity)))

\* A plausible slip: the reversed notes keep the start times they had.
Retime_keep_times(notes, i, ctime, acc) == notes

\* RETROGRADE: start times recomputed from start_time over the reversed list.
RECURSIVE Retime(_, _, _, _)
Retime(notes, i, ctime, acc) ==
    IF i > Len(notes) THEN acc
    ELSE Retime(notes, i + 1, ctime + notes[i].duration,
                Append(acc, [notes[i] EXCEPT !.start_time = ctime]))

\* A plausible slip: the transposed pitch is not snapped to the scale.
develop_motif_no_snap(m, development, sc, start_time, transposition, draws) ==
    [motif |-> Motif([i \in 1..Len(m.notes) |->
                        MelodyNote(m.notes[i].pitch + transposition,
                                   start_time + (m.notes[i].start_time
                                                 - m.notes[1].start_time),
                                   m.notes[i].duration, m.notes[i].velocity)],
                     m.contour),
     used |-> 0]

\* A plausible slip: INVERTED mirrors each interval at the previous note of
\* the source instead of the previous new note.
develop_motif_source_reference(m, development, sc, start_time, transposition, draws) ==
    LET r == DevelopNotes(m, development, sc, start_time, transposition, draws,
                          1, 0, <<>>)
        mirrored == [i \in 1..Len(m.notes) |->
                        IF i = 1 THEN r.notes[i]
                        ELSE [r.notes[i] EXCEPT
                                !.pitch = m.notes[i - 1].pitch
                                            - (m.notes[i].pitch - m.notes[i - 1].pitch)]]
        new_notes == CASE development = "retrograde" ->
                              Retime(Reverse(r.notes), 1, start_time, <<>>)
                       [] development = "inverted" -> mirrored
                       [] OTHER -> r.notes
    IN  [motif |-> Motif(new_notes, m.contour), used |-> r.used]

\* Returns [motif, used]: the new Motif and the number of draws consumed.
develop_motif(m, development, sc, start_time, transposition, draws) ==
    LET r == DevelopNotes(m, development, sc, start_time, transposition, draws,
                          1, 0, <<>>)
        new_notes == IF development = "retrograde"
                     THEN Retime(Reverse(r.notes), 1, start_time, <<>>)
                     ELSE r.notes
    IN  [motif |-> Motif(new_notes, m.contour), used |-> r.used]

(***************************************************************************)
(* melody.py: calculate_uniqueness                                         *)
(***************************************************************************)
\* The 4-note patterns: window i (from 1) holds notes i..i+3.
Patterns(notes) ==
    [i \in 1..(Len(notes) - 3) |->
        <<notes[i + 1].pitch - notes[i].pitch,
          notes[i + 2].pitch - notes[i + 1].pitch,
          notes[i + 3].pitch - notes[i + 2].pitch>>]

\* The note indices (from 1) calculate_uniqueness reads.
UniquenessReads(notes) ==
    IF Len(notes) < 4 THEN {}
    ELSE {i + j : i \in 1..(Len(notes) - 3), j \in 0..3}

\* A plausible slip: a pattern is keyed by its first two intervals only.
calculate_uniqueness_pairs(m) ==
    IF Len(m.notes) < 4 THEN <<1, 1>>
    ELSE LET patterns == Patterns(m.notes)
         IN  Frac(Cardinality({<<patterns[i][1], patterns[i][2]>> :
                                  i \in DOMAIN patterns}),
                  Len(patterns))

\* A plausible slip: the ratio turned upside down.
calculate_uniqueness_inverted(m) ==
    IF Len(m.notes) < 4 THEN <<1, 1>>
    ELSE LET patterns == Patterns(m.notes)
         IN  Frac(Len(patterns), Cardinality({patterns[i] : i \in DOMAIN patterns}))

\* A plausible slip: a melody too short for a pattern scores 0.
calculate_uniqueness_short_zero(m) ==
    IF Len(m.notes) < 4 THEN <<0, 1>>
    ELSE LET patterns == Patterns(m.notes)
         IN  Frac(Cardinality({patterns[i] : i \in DOMAIN patterns}), Len(patterns))

calculate_uniqueness(m) ==
    IF Len(m.notes) < 4 THEN <<1, 1>>
    ELSE
        LET patterns == Patterns(m.notes)
        IN  IF patterns = <<>> THEN <<1, 1>>
            ELSE Frac(Cardinality({patterns[i] : i \in DOMAIN patterns}),
                      Len(patterns))

(***************************************************************************)
(* random.sample(range(n), k), as the library computes it                  *)
(***************************************************************************)
RECURSIVE CeilLog4(_, _)
CeilLog4(x, e) == IF 4 ^ e >= x THEN e ELSE CeilLog4(x, e + 1)

\* The population size up to which sample works on a copy of the population.
SampleSetSize(k) == 21 + (IF k > 5 THEN 4 ^ CeilLog4(k * 3, 0) ELSE 0)

\* pool[j] taken, then overwritten by the last live element of the pool.
RECURSIVE SamplePool(_, _, _, _, _, _)
SamplePool(pool, n, k, draws, i, acc) ==
    IF i >= k THEN acc
    ELSE LET j == RandBelow(draws[i + 1], n - i)
         IN  SamplePool([pool EXCEPT ![j + 1] = pool[n - i]], n, k, draws,
                        i + 1, Append(acc, pool[j + 1]))

\* Selections already made are drawn again.
RECURSIVE SampleSet(_, _, _, _, _)
SampleSet(n, k, draws, d, acc) ==
    IF Len(acc) >= k THEN [indices |-> acc, used |-> d]
    ELSE LET j == RandBelow(draws[d + 1], n)
         IN  IF \E x \in DOMAIN acc : acc[x] = j
             THEN SampleSet(n, k, draws, d + 1, acc)
             ELSE SampleSet(n, k, draws, d + 1, Append(acc, j))

\* Returns [indices, used]; the indices count from 0 as in the code.
Sample(n, k, draws) ==
    IF n <= SampleSetSize(k)
    THEN [indices |-> SamplePool([x \in 1..n |-> x - 1], n, k, draws, 0, <<>>),
          used |-> k]
    ELSE SampleSet(n, k, draws, 0, <<>>)

(***************************************************************************)
(* melody.py: optimize_melody                                              *)
(***************************************************************************)
\* A plausible slip: the new pitch is not snapped to the scale.
RECURSIVE VaryNotes_no_snap(_, _, _, _, _)
VaryNotes_no_snap(notes, indices, sc, draws, i) ==
    IF i > Len(indices) THEN notes
    ELSE LET idx == indices[i] + 1
             note == notes[idx]
             new_pitch == note.pitch + Choice(<<-2, -1, 1, 2>>, draws[i])
         IN  VaryNotes_no_snap([notes EXCEPT ![idx] =
                                    MelodyNote(new_pitch, note.start_time,
                                               note.duration, note.velocity)],
                               indices, sc, draws, i + 1)

\* for idx in indices: the note at idx is replaced by a copy with a new pitch.
RECURSIVE VaryNotes(_, _, _, _, _)
VaryNotes(notes, indices, sc, draws, i) ==
    IF i > Len(indices) THEN notes
    ELSE LET idx == indices[i] + 1
             note == notes[idx]
             new_pitch == Snap(sc, note.pitch + Choice(<<-2, -1, 1, 2>>, draws[i]))
         IN  VaryNotes([notes EXCEPT ![idx] =
                            MelodyNote(new_pitch, note.start_time, note.duration,
                                       note.velocity)],
                       indices, sc, draws, i + 1)

\* Draws one iteration of the optimizer can consume at most.
OptimizeDraws(m) == 2 + 4 * Max(1, Len(m.notes) \div 4)

\* A plausible slip: a candidate accepted on the 10% path replaces the best
\* melody while the best score is kept.
OptimizeIteration_stale_score(m, best, score, sc, draws) ==
    LET n == Len(m.notes)
        new_melody == Melody(m.notes, m.motifs, m.params, <<0, 1>>)
        num_changes == RandInt(1, Max(1, n \div 4), draws[1])
        smp == Sample(n, Min(num_changes, n), SubSeq(draws, 2, Len(draws)))
        d1 == 1 + smp.used
        varied == VaryNotes(new_melody.notes, smp.indices, sc,
                            SubSeq(draws, d1 + 1, Len(draws)), 1)
        d2 == d1 + Len(smp.indices)
        candidate == [new_melody EXCEPT !.notes = varied]
        new_score == calculate_uniqueness(candidate)
        better == FracLess(score, new_score)
        accepted == better \/ RandomLess(draws[d2 + 1], 10)
    IN  [best_melody |-> IF accepted THEN candidate ELSE best,
         best_score |-> IF better THEN new_score ELSE score,
         accepted |-> accepted,
         indices |-> smp.indices,
         candidate |-> candidate,
         used |-> IF better THEN d2 ELSE d2 + 1]

\* A plausible slip: the candidate is cloned from the best melody so far.
OptimizeIteration_from_best(m, best, score, sc, draws) ==
    LET n == Len(m.notes)
        new_melody == Melody(best.notes, best.motifs, best.params, <<0, 1>>)
        num_changes == RandInt(1, Max(1, n \div 4), draws[1])
        smp == Sample(n, Min(num_changes, n), SubSeq(draws, 2, Len(draws)))
        d1 == 1 + smp.used
        varied == VaryNotes(new_melody.notes, smp.indices, sc,
                            SubSeq(draws, d1 + 1, Len(draws)), 1)
        d2 == d1 + Len(smp.indices)
        candidate == [new_melody EXCEPT !.notes = varied]
        new_score == calculate_uniqueness(candidate)
        better == FracLess(score, new_score)
        accepted == better \/ RandomLess(draws[d2 + 1], 10)
    IN  [best_melody |-> IF accepted THEN candidate ELSE best,
         best_score |-> IF accepted THEN new_score ELSE score,
         accepted |-> accepted,
         indices |-> smp.indices,
         candidate |-> candidate,
         used |-> IF better THEN d2 ELSE d2 + 1]

\* A plausible slip: only a better candidate is accepted, so the best melody
\* seen is what is kept.
OptimizeIteration_keep_best(m, best, score, sc, draws) ==
    LET n == Len(m.notes)
        new_melody == Melody(m.notes, m.motifs, m.params, <<0, 1>>)
        num_changes == RandInt(1, Max(1, n \div 4), draws[1])
        smp == Sample(n, Min(num_changes, n), SubSeq(draws, 2, Len(draws)))
        d1 == 1 + smp.used
        varied == VaryNotes(new_melody.notes, smp.indices, sc,
                            SubSeq(draws, d1 + 1, Len(draws)), 1)
        d2 == d1 + Len(smp.indices)
        candidate == [new_melody EXCEPT !.notes = varied]
        new_score == calculate_uniqueness(candidate)
        better == FracLess(score, new_score)
        accepted == better
    IN  [best_melody |-> IF accepted THEN candidate ELSE best,
         best_score |-> IF accepted THEN new_score ELSE score,
         accepted |-> accepted,
         indices |-> smp.indices,
         candidate |-> candidate,
         used |-> IF better THEN d2 ELSE d2 + 1]

\* One iteration of the for loop.  m is the melody passed to
\* optimize_melody; best/score are best_melody and best_score before the
\* iteration.  Returns [best_melody, best_score, accepted, indices,
\* candidate, used]: candidate is new_melody after the perturbation of the
\* notes at indices.
OptimizeIteration(m, best, score, sc, draws) ==
    LET n == Len(m.notes)
        new_melody == Melody(m.notes, m.motifs, m.params, <<0, 1>>)
        num_changes == RandInt(1, Max(1, n \div 4), draws[1])
        smp == Sample(n, Min(num_changes, n), SubSeq(draws, 2, Len(draws)))
        d1 == 1 + smp.used
        varied == VaryNotes(new_melody.notes, smp.indices, sc,
                            SubSeq(draws, d1 + 1, Len(draws)), 1)
        d2 == d1 + Len(smp.indices)
        candidate == [new_melody EXCEPT !.notes = varied]
        new_score == calculate_uniqueness(candidate)
        better == FracLess(score, new_score)
        accepted == better \/ RandomLess(draws[d2 + 1], 10)
    IN  [best_melody |-> IF accepted THEN candidate ELSE best,
         best_score |-> IF accepted THEN new_score ELSE score,
         accepted |-> accepted,
         indices |-> smp.indices,
         candidate |-> candidate,
         used |-> IF better THEN d2 ELSE d2 + 1]

(***************************************************************************)
(* melody.py: GENRE_PRESETS and the parameter objects of the callers       *)
(***************************************************************************)
GENRE_PRESETS ==
    [g \in {"relaxation", "ambient", "meditation", "lofi", "classical"} |->
        CASE g = "relaxation" ->
                [MelodyParams EXCEPT !.tempo = 65, !.mode = "major",
                    !.contour = "arch", !.syncopation = 10,
                    !.velocity_range = <<40, 65>>, !.legato = 90]
          [] g = "ambient" ->
                [MelodyParams EXCEPT !.tempo = 60, !.mode = "dorian",
                    !.contour = "wave", !.syncopation = 20,
                    !.velocity_range = <<35, 55>>, !.legato = 100]
          [] g = "meditation" ->
                [MelodyParams EXCEPT !.tempo = 50, !.mode = "pentatonic_major",
                    !.contour = "static", !.syncopation = 5,
                    !.velocity_range = <<30, 50>>, !.legato = 100]
          [] g = "lofi" ->
                [MelodyParams EXCEPT !.tempo = 75, !.mode = "minor",
                    !.contour = "descending", !.syncopation = 40,
                    !.velocity_range = <<50, 75>>, !.legato = 70]
          [] g = "classical" ->
                [MelodyParams EXCEPT !.tempo = 80, !.mode = "major",
                    !.contour = "arch", !.syncopation = 15,
                    !.velocity_range = <<45, 90>>, !.legato = 80,
                    !.use_motifs = TRUE, !.development_probability = 70]]

MaxSeconds == 8     \* duration_seconds of the modelled calls

\* The parameter values generate_melody is called with: the defaults, the
\* five presets as generate_melody_for_genre passes them on, and two
\* caller-built objects with short motifs and a tight repetition cap, two
\* objects that ask for a melody of no length, one that asks for motifs of
\* no notes and one whose notes have no duration.
CallerParams ==
    {[MelodyParams EXCEPT !.duration_seconds = MaxSeconds]}
    \cup {[GENRE_PRESETS[g] EXCEPT !.duration_seconds = MaxSeconds,
                                    !.root_note = "A"] :
              g \in DOMAIN GENRE_PRESETS}
    \cup {[MelodyParams EXCEPT !.duration_seconds = MaxSeconds + 4,
                !.motif_length = 2, !.max_repetition = 1,
                !.contour = "static", !.velocity_range = <<0, 127>>,
                !.root_note = "H"],
            [MelodyParams EXCEPT !.duration_seconds = MaxSeconds,
                !.motif_length = 1, !.use_motifs = FALSE, !.octave = 4,
                !.mode = "pentatonic_minor", !.time_signature = <<3, 4>>]}
    \cup {[MelodyParams EXCEPT !.duration_seconds = 0],
            [GENRE_PRESETS["lofi"] EXCEPT !.duration_seconds = 0,
                !.motif_length = 1, !.max_repetition = 0]}
    \cup {[MelodyParams EXCEPT !.duration_seconds = MaxSeconds \div 2,
                !.motif_length = 0, !.time_signature = <<3, 4>>],
            [MelodyParams EXCEPT !.duration_seconds = MaxSeconds \div 2,
                !.motif_length = 2, !.legato = 0,
                !.time_signature = <<3, 4>>]}

Seeds == 0..MaxSeed

(***************************************************************************)
(* melody.py: generate_melody                                              *)
(***************************************************************************)
\* if seed is not None: random.seed(seed)
\* A plausible slip: the seed is never applied.
SeedRng_ignored(sd, s) == s

SeedRng(sd, s) == IF sd /= None THEN RngSeed(sd[1]) ELSE s

\* total_beats = int(duration_seconds * tempo / 60)
\* A plausible slip: at least one beat is always generated.
TotalBeats_at_least_one(p) == Max(1, (p.duration_seconds * p.tempo) \div 60)

TotalBeats(p) == (p.duration_seconds * p.tempo) \div 60

\* if pattern_counts[motif_hash] <= params.max_repetition
\* A plausible slip: one repetition too many is let through.
WithinCap_plus_one(count, p) == count <= p.max_repetition + 1

\* A plausible slip: a strict comparison.
WithinCap_strict(count, p) == count < p.max_repetition

WithinCap(count, p) == count <= p.max_repetition

\* pattern_counts.get(motif_hash, 0)
CountOf(counts, h) == IF h \in DOMAIN counts THEN counts[h] ELSE 0

\* The notes of the candidate, moved to the current position.
AdjustedNotes(m, ctime) ==
    [i \in 1..Len(m.notes) |->
        MelodyNote(m.notes[i].pitch,
                   ctime + (m.notes[i].start_time - m.notes[1].start_time),
                   m.notes[i].duration, m.notes[i].velocity)]

\* Draws one iteration of the while loop can consume at most.
LoopDraws(p) == 4 + 5 * p.motif_length

\* The first half of the loop body when an existing motif is developed.
\* draws[1] is the draw of the deciding random().  Returns [motif, used].
DevelopBranch(p, sc, used_motifs, ctime, draws) ==
    LET source_motif == Choice(used_motifs, draws[2])
        development == Choice(MotifDevelopmentList, draws[3])
        transposed == development = "transposed"
        transposition == IF transposed THEN Choice(<<0, 2, 4, 5, 7>>, draws[4])
                         ELSE 0
        d == IF transposed THEN 4 ELSE 3
        r == develop_motif(source_motif, development, sc, ctime, transposition,
                           SubSeq(draws, d + 1, Len(draws)))
    IN  [motif |-> r.motif, used |-> d + r.used]

\* The first half of the loop body when a new motif is generated.  k is
\* the number of draws already consumed by the deciding condition.
OriginateBranch(p, sc, m, k, draws) ==
    LET vary == RandomLess(draws[k + 1], 30)
        contour == IF vary THEN Choice(ContourList, draws[k + 2]) ELSE p.contour
        d == IF vary THEN k + 2 ELSE k + 1
        start_pitch == IF m.notes /= <<>> THEN m.notes[Len(m.notes)].pitch
                       ELSE sc[3]
    IN  [motif |-> generate_motif(sc, start_pitch, p.motif_length, contour, p,
                                  SubSeq(draws, d + 1, Len(draws))),
         used |-> d + MotifDraws(p.motif_length)]

\* params.use_motifs and motifs_used and random.random() < probability
Develops(p, used_motifs, draws) ==
    p.use_motifs /\ used_motifs /= <<>>
        /\ RandomLess(draws[1], p.development_probability)

\* random() is drawn only when the operands before it are true.
DecisionDraws(p, used_motifs) ==
    IF p.use_motifs /\ used_motifs /= <<>> THEN 1 ELSE 0

\* Melody(): the value the melody variables hold while no call is running.
NoMelody == Melody(<<>>, <<>>, MelodyParams, <<0, 1>>)

\* History of a call: whether random.seed changed the generator's state,
\* and whether the call repeats the parameters and seed of the reference call.
NoEntry == [reseeded |-> FALSE, repeat |-> FALSE]

InitEngine ==
    /\ pc = "idle"
    /\ rng \in 0..(RngMod - 1)
    /\ params = MelodyParams
    /\ seed = None
    /\ scale = <<>>
    /\ total_beats = 0
    /\ melody = NoMelody
    /\ current_time = 0
    /\ motifs_used = <<>>
    /\ pattern_counts = <<>>
    /\ motif = Motif(<<>>, <<>>)
    /\ kept = FALSE
    /\ best_melody = NoMelody
    /\ best_score = <<0, 1>>
    /\ iter = 0
    /\ max_iterations = 0
    /\ best_is_input = FALSE
    /\ result = None
    /\ ref = None
    /\ entry = NoEntry
    /\ presets = GENRE_PRESETS
    /\ genre = None
    /\ held = None
    /\ other = None
    /\ pipeline = None
    /\ stage = None
    /\ run = None

\* generate_melody(p, sd) up to the while loop.
Enter(p, sd) ==
    /\ pc = "idle"
    /\ LET s == SeedRng(sd, rng)
           sc == get_scale_notes(p.root_note, p.mode, p.octave)
           initial_motif == generate_motif(sc, sc[3], p.motif_length, p.contour, p,
                                           Stream(s, MotifDraws(p.motif_length)))
       IN  /\ rng' = RngAfter(s, MotifDraws(p.motif_length))
           /\ scale' = sc
           /\ motifs_used' = <<initial_motif>>
           /\ entry' = [reseeded |-> sd /= None /\ rng /= RngSeed(sd[1]),
                       repeat |-> ref /= None /\ ref[1].params = p
                                      /\ ref[1].seed = sd]
    /\ params' = p
    /\ seed' = sd
    /\ total_beats' = TotalBeats(p)
    /\ melody' = Melody(<<>>, <<>>, p, <<0, 1>>)
    /\ current_time' = 0
    /\ pattern_counts' = <<>>
    /\ pc' = "loop"
    /\ UNCHANGED <<motif, kept, best_melody, best_score, iter, max_iterations,
                   best_is_input,
                   result, ref, call, ret>>

\* The loop body counting and advancing only for the candidates it keeps.
Account_skip_discarded(c) ==
    LET motif_hash == get_hash(c.motif)
        count == CountOf(pattern_counts, motif_hash) + 1
        keep == WithinCap(count, params)
        motif_duration == SumSeq([i \in 1..Len(c.motif.notes) |->
                                    c.motif.notes[i].duration])
    IN  /\ pattern_counts' =
               IF keep
               THEN [h \in DOMAIN pattern_counts \cup {motif_hash} |->
                       IF h = motif_hash THEN count ELSE pattern_counts[h]]
               ELSE pattern_counts
        /\ melody' = IF keep
                     THEN [melody EXCEPT
                             !.notes = @ \o AdjustedNotes(c.motif, current_time),
                             !.motifs = Append(@, c.motif)]
                     ELSE melody
        /\ kept' = keep
        /\ motif' = c.motif
        /\ current_time' = current_time
               + Max(motif_duration, params.time_signature[1] * TicksPerBeat)
        /\ rng' = RngAfter(rng, c.used)

\* The loop body advancing by the duration of the candidate alone.
Account_by_duration(c) ==
    LET motif_hash == get_hash(c.motif)
        count == CountOf(pattern_counts, motif_hash) + 1
        keep == WithinCap(count, params)
        motif_duration == SumSeq([i \in 1..Len(c.motif.notes) |->
                                    c.motif.notes[i].duration])
    IN  /\ pattern_counts' =
               [h \in DOMAIN pattern_counts \cup {motif_hash} |->
                   IF h = motif_hash THEN count ELSE pattern_counts[h]]
        /\ melody' = IF keep
                     THEN [melody EXCEPT
                             !.notes = @ \o AdjustedNotes(c.motif, current_time),
                             !.motifs = Append(@, c.motif)]
                     ELSE melody
        /\ kept' = keep
        /\ motif' = c.motif
        /\ current_time' = current_time + motif_duration
        /\ rng' = RngAfter(rng, c.used)

\* The second half of the loop body: the repetition ledger, the append and
\* the advance of current_time, for the candidate c = [motif, used].
Account(c) ==
    LET motif_hash == get_hash(c.motif)
        count == CountOf(pattern_counts, motif_hash) + 1
        keep == WithinCap(count, params)
        motif_duration == SumSeq([i \in 1..Len(c.motif.notes) |->
                                    c.motif.notes[i].duration])
    IN  /\ pattern_counts' =
               [h \in DOMAIN pattern_counts \cup {motif_hash} |->
                   IF h = motif_hash THEN count ELSE pattern_counts[h]]
        /\ melody' = IF keep
                     THEN [melody EXCEPT
                             !.notes = @ \o AdjustedNotes(c.motif, current_time),
                             !.motifs = Append(@, c.motif)]
                     ELSE melody
        /\ kept' = keep
        /\ motif' = c.motif
        /\ current_time' = current_time
               + Max(motif_duration, params.time_signature[1] * TicksPerBeat)
        /\ rng' = RngAfter(rng, c.used)

\* One iteration of the while loop that develops an existing motif.
LoopDevelop ==
    /\ pc = "loop"
    /\ current_time < total_beats * TicksPerBeat
    /\ LET draws == Stream(rng, LoopDraws(params))
       IN  /\ Develops(params, motifs_used, draws)
           /\ Account(DevelopBranch(params, scale, motifs_used, current_time, draws))
    /\ UNCHANGED <<pc, params, seed, scale, total_beats, motifs_used, best_melody,
                   best_score, iter, max_iterations,
                   best_is_input, result, ref, entry, call,
                   ret, restVars>>

\* One iteration of the while loop that generates a new motif.
LoopOriginate ==
    /\ pc = "loop"
    /\ current_time < total_beats * TicksPerBeat
    /\ LET draws == Stream(rng, LoopDraws(params))
           c == OriginateBranch(params, scale, melody,
                                DecisionDraws(params, motifs_used), draws)
       IN  /\ ~Develops(params, motifs_used, draws)
           /\ Account(c)
           /\ motifs_used' = Append(motifs_used, c.motif)
    /\ UNCHANGED <<pc, params, seed, scale, total_beats, best_melody,
                   best_score, iter, max_iterations,
                   best_is_input, result, ref, entry, call,
                   ret, restVars>>

\* max_iterations of the call optimize_melody(melody) in generate_melody.
MaxIterations == 10

\* The while loop ends; optimize_melody(melody) up to its for loop.
EnterOptimize ==
    /\ pc = "loop"
    /\ ~(current_time < total_beats * TicksPerBeat)
    /\ best_melody' = melody
    /\ best_score' = calculate_uniqueness(melody)
    /\ iter' = 0
    /\ max_iterations' = MaxIterations
    /\ best_is_input' = TRUE
    /\ pc' = "optimize"
    /\ UNCHANGED <<rng, params, seed, scale, total_beats, melody, current_time,
                   motifs_used, pattern_counts, motif, kept, result, ref,
                   entry, call, ret, restVars>>

\* The for loop varying the notes of the Melody passed in instead of clones.
OptimizeStep_in_place ==
    /\ pc = "optimize"
    /\ iter < max_iterations
    /\ LET sc == get_scale_notes(melody.params.root_note, melody.params.mode,
                                 melody.params.octave)
           r == OptimizeIteration(melody, best_melody, best_score, sc,
                                  Stream(rng, OptimizeDraws(melody)))
       IN  /\ best_melody' = r.best_melody
           /\ best_score' = r.best_score
           /\ best_is_input' = (best_is_input /\ ~r.accepted)
           /\ rng' = RngAfter(rng, r.used)
           /\ melody' = [melody EXCEPT !.notes = r.candidate.notes]
    /\ iter' = iter + 1
    /\ UNCHANGED <<pc, params, seed, scale, total_beats, current_time,
                   motifs_used, pattern_counts, motif, kept, max_iterations,
                   result, ref, entry, call, ret, restVars>>

\* One iteration of the for loop of optimize_melody.
OptimizeStep ==
    /\ pc = "optimize"
    /\ iter < max_iterations
    /\ LET sc == get_scale_notes(melody.params.root_note, melody.params.mode,
                                 melody.params.octave)
           r == OptimizeIteration(melody, best_melody, best_score, sc,
                                  Stream(rng, OptimizeDraws(melody)))
       IN  /\ best_melody' = r.best_melody
           /\ best_score' = r.best_score
           /\ best_is_input' = (best_is_input /\ ~r.accepted)
           /\ rng' = RngAfter(rng, r.used)
    /\ iter' = iter + 1
    /\ UNCHANGED <<pc, params, seed, scale, total_beats, melody, current_time,
                   motifs_used, pattern_counts, motif, kept, max_iterations,
                   result, ref, entry, call, ret, restVars>>

\* best_melody.uniqueness_score = best_score; return best_melody
Return ==
    /\ pc = "optimize"
    /\ iter = max_iterations
    /\ LET returned == [best_melody EXCEPT !.uniqueness_score = best_score]
       IN  /\ result' = Some(returned)
           \* the score is written on the object tracked last: on the
           \* draft itself only if no candidate replaced it
           /\ melody' = IF best_is_input THEN returned ELSE melody
           /\ ref' = IF ref = None /\ seed /= None
                     THEN Some([params |-> params, seed |-> seed, result |-> returned])
                     ELSE ref
           \* returned.params is the object the call was given
           /\ held' = IF held = None /\ genre /= None
                      THEN Some([genre |-> genre[1], params |-> returned.params])
                      ELSE held
    /\ pc' = "done"
    /\ UNCHANGED <<rng, params, seed, scale, total_beats, current_time,
                   motifs_used, pattern_counts, motif, kept, best_melody,
                   best_score, iter, max_iterations,
                   best_is_input, entry, presets, genre,
                   other, pipelineVars, call, ret>>

\* The caller drops the returned melody; the locals of the call are gone.
Release ==
    /\ pc = "done"
    /\ pc' = "idle"
    /\ params' = MelodyParams
    /\ seed' = None
    /\ scale' = <<>>
    /\ total_beats' = 0
    /\ melody' = NoMelody
    /\ current_time' = 0
    /\ motifs_used' = <<>>
    /\ pattern_counts' = <<>>
    /\ motif' = Motif(<<>>, <<>>)
    /\ kept' = FALSE
    /\ best_melody' = NoMelody
    /\ best_score' = <<0, 1>>
    /\ iter' = 0
    /\ max_iterations' = 0
    /\ best_is_input' = FALSE
    /\ result' = None
    /\ entry' = NoEntry
    /\ genre' = None
    /\ other' = None
    /\ UNCHANGED <<rng, ref, presets, held, pipelineVars, call, ret>>

\* A caller with no other call pending calls generate_melody.
Call ==
    /\ call = None
    /\ \E p \in CallerParams, sd \in {Some(x) : x \in Seeds} \cup {None} : Enter(p, sd)
    /\ genre' = None
    /\ UNCHANGED <<presets, held, other, pipelineVars>>

\* generate_melody_for_genre(g, duration_seconds, root_note, sd): the preset
\* object itself is written to and handed to generate_melody.
generate_melody_for_genre(g, duration_seconds, root_note, sd) ==
    LET key == IF g \in DOMAIN presets THEN g ELSE "relaxation"
        p == [presets[key] EXCEPT !.duration_seconds = duration_seconds,
                                  !.root_note = root_note]
    IN  /\ presets' = [presets EXCEPT ![key] = p]
        /\ genre' = Some(key)
        /\ Enter(p, sd)
        /\ UNCHANGED <<held, other, pipelineVars>>

GenreNames == {"lofi", "relaxation", "jazz"}

\* A caller with no other call pending calls generate_melody_for_genre
\* with an explicit seed.
CallGenre ==
    /\ call = None
    /\ \E g \in GenreNames, d \in {MaxSeconds, MaxSeconds \div 2},
          r \in {"C", "A"}, sd \in {Some(x) : x \in Seeds} :
          generate_melody_for_genre(g, d, r, sd)

Init == InitEngine /\ call = None /\ ret = None

Next ==
    \/ Call
    \/ LoopDevelop
    \/ LoopOriginate
    \/ EnterOptimize
    \/ OptimizeStep
    \/ Return
    \/ Release

Spec == Init /\ [][Next]_vars

\* ---- a second thread --------------------------------------------------
MaxOtherDraws == 2  \* draws of the second thread that are followed

\* Of a second thread that runs generate_melody(p2, sd2) with its own seed
\* the model keeps what it does to the state both threads share, the
\* module-level generator: its random.seed(sd2), then its draws one by one.
\* It runs while the first thread repeats the reference call, between two
\* steps of that call.
OtherSeed ==
    /\ pc \in {"loop", "optimize"} /\ entry.repeat
    /\ other = None
    /\ \E sd2 \in Seeds : rng' = SeedRng(Some(sd2), rng)
    /\ other' = Some(0)
    /\ UNCHANGED <<pc, params, seed, scale, total_beats, melody, current_time,
                   motifs_used, pattern_counts, motif, kept, best_melody,
                   best_score, iter, max_iterations,
                   best_is_input, result, ref, entry,
                   presets, genre, held, pipelineVars, call, ret>>

\* One draw of the second thread (random(), choice, randint, uniform).
OtherDraw ==
    /\ pc \in {"loop", "optimize"}
    /\ other /= None /\ other[1] < MaxOtherDraws
    /\ rng' = RngStep(rng)
    /\ other' = Some(other[1] + 1)
    /\ UNCHANGED <<pc, params, seed, scale, total_beats, melody, current_time,
                   motifs_used, pattern_counts, motif, kept, best_melody,
                   best_score, iter, max_iterations,
                   best_is_input, result, ref, entry,
                   presets, genre, held, pipelineVars, call, ret>>

\* Two threads call generate_melody.
SpecThreads == Init /\ [][Next \/ OtherSeed \/ OtherDraw]_vars

\* The callers use generate_melody_for_genre only.
SpecGenre ==
    Init /\ [][CallGenre \/ LoopDevelop \/ LoopOriginate \/ EnterOptimize
                  \/ OptimizeStep \/ Return \/ Release]_vars

(***************************************************************************)
(* music_pipeline.py: MusicPipeline                                        *)
(* What a stage makes (the melody, the arrangement, the audio) is kept as  *)
(* present or absent.  Whether a library call inside a stage raises or     *)
(* fails is the environment's choice, the `outcome` of the stage.  The     *)
(* stages run with preview = False, the full run with                      *)
(* save_to_learning = False.                                               *)
(***************************************************************************)
PipelineStage(name, status, midi_path, audio_path, error) ==
    [name |-> name, status |-> status, midi_path |-> midi_path,
     audio_path |-> audio_path, error |-> error]

\* MusicPipeline.__init__: nothing made yet.
MusicPipeline == [melody |-> None, arrangement |-> None, production_result |-> None]

MelodyOutcomes == {"ok", "generate_raises", "export_raises"}

\* stage_melody on the pipeline object pl.  Returns [pipeline, stage].
stage_melody(pl, outcome) ==
    CASE outcome = "generate_raises" ->
            [pipeline |-> pl,
             stage |-> PipelineStage("melody", "error", None, None, Some("exception"))]
      [] outcome = "export_raises" ->
            \* self.melody is assigned before melody_to_midi runs
            [pipeline |-> [pl EXCEPT !.melody = Some("melody")],
             stage |-> PipelineStage("melody", "error", None, None, Some("exception"))]
      [] OTHER ->
            [pipeline |-> [pl EXCEPT !.melody = Some("melody")],
             stage |-> PipelineStage("melody", "completed", Some("01_melody.mid"),
                                     None, None)]

ArrangementOutcomes == {"ok", "arrange_raises", "export_raises"}

\* A plausible slip: the guard on self.melody is missing.
stage_arrangement_no_guard(pl, outcome) ==
    CASE outcome = "arrange_raises" ->
            [pipeline |-> pl,
             stage |-> PipelineStage("arrangement", "error", None, None,
                                     Some("exception"))]
      [] outcome = "export_raises" ->
            [pipeline |-> [pl EXCEPT !.arrangement = Some("arrangement")],
             stage |-> PipelineStage("arrangement", "error", None, None,
                                     Some("exception"))]
      [] OTHER ->
            [pipeline |-> [pl EXCEPT !.arrangement = Some("arrangement")],
             stage |-> PipelineStage("arrangement", "completed",
                                     Some("02_arrangement.mid"), None, None)]

\* stage_arrangement on the pipeline object pl.  Returns [pipeline, stage].
stage_arrangement(pl, outcome) ==
    IF pl.melody = None
    THEN [pipeline |-> pl,
          stage |-> PipelineStage("arrangement", "error", None, None,
                        Some("No melody generated. Run stage_melody first."))]
    ELSE CASE outcome = "arrange_raises" ->
                 [pipeline |-> pl,
                  stage |-> PipelineStage("arrangement", "error", None, None,
                                          Some("exception"))]
           [] outcome = "export_raises" ->
                 \* self.arrangement is assigned before arrangement_to_midi runs
                 [pipeline |-> [pl EXCEPT !.arrangement = Some("arrangement")],
                  stage |-> PipelineStage("arrangement", "error", None, None,
                                          Some("exception"))]
           [] OTHER ->
                 [pipeline |-> [pl EXCEPT !.arrangement = Some("arrangement")],
                  stage |-> PipelineStage("arrangement", "completed",
                                          Some("02_arrangement.mid"), None, None)]

\* produce_arrangement: succeeds, fails before or after the WAV file is
\* written, or an exception escapes into stage_production.
ProductionOutcomes == {"success", "failure", "failure_with_audio", "raises"}

\* stage_production on the pipeline object pl.  Returns [pipeline, stage].
stage_production(pl, outcome) ==
    IF pl.arrangement = None
    THEN [pipeline |-> pl,
          stage |-> PipelineStage("production", "error", None, None,
                        Some("No arrangement created. Run stage_arrangement first."))]
    ELSE CASE outcome = "raises" ->
                 [pipeline |-> pl,
                  stage |-> PipelineStage("production", "error", None, None,
                                          Some("exception"))]
           [] outcome = "failure" ->
                 [pipeline |-> [pl EXCEPT !.production_result = Some(FALSE)],
                  stage |-> PipelineStage("production", "error", None, None,
                                          Some("production errors"))]
           [] outcome = "failure_with_audio" ->
                 [pipeline |-> [pl EXCEPT !.production_result = Some(FALSE)],
                  stage |-> PipelineStage("production", "error", None,
                                          Some("production.wav"),
                                          Some("production errors"))]
           [] OTHER ->
                 [pipeline |-> [pl EXCEPT !.production_result = Some(TRUE)],
                  stage |-> PipelineStage("production", "completed", None,
                                          Some("production.wav"), None)]

\* MusicPipeline(output_dir, enable_learning=False)
NewPipeline ==
    /\ pc = "idle" /\ pipeline = None
    /\ pipeline' = Some(MusicPipeline)
    /\ UNCHANGED <<pc, rng, params, seed, scale, total_beats, melody,
                   current_time, motifs_used, pattern_counts, motif, kept,
                   best_melody, best_score, iter, max_iterations,
                   best_is_input, result, ref,
                   entry, presets, genre, held, other, stage, run, call, ret>>

\* No run_full_pipeline is under way.
NoRun == IF run = None THEN TRUE ELSE run[1].at = "returned"

\* The caller calls one stage method; r is what the method does.
StageCall(r) ==
    /\ pipeline' = Some(r.pipeline)
    /\ stage' = Some(r.stage)
    /\ UNCHANGED <<pc, rng, params, seed, scale, total_beats, melody,
                   current_time, motifs_used, pattern_counts, motif, kept,
                   best_melody, best_score, iter, max_iterations,
                   best_is_input, result, ref,
                   entry, presets, genre, held, other, run, call, ret>>

StageMelody ==
    /\ pipeline /= None /\ NoRun
    /\ \E o \in MelodyOutcomes : StageCall(stage_melody(pipeline[1], o))

StageArrangement ==
    /\ pipeline /= None /\ NoRun
    /\ \E o \in ArrangementOutcomes : StageCall(stage_arrangement(pipeline[1], o))

StageProduction ==
    /\ pipeline /= None /\ NoRun
    /\ \E o \in ProductionOutcomes : StageCall(stage_production(pipeline[1], o))

\* PipelineResult(success=False, stages={}); stages in insertion order.
PipelineResult ==
    [success |-> FALSE, stages |-> <<>>, final_midi_path |-> None,
     final_audio_path |-> None, errors |-> <<>>]

\* A plausible slip: the run goes on after a stage that failed.
Completed_or_error(st) == st.status \in {"completed", "error"}

\* stage.status != "completed" decides whether run_full_pipeline returns.
Completed(st) == st.status = "completed"

\* run_full_pipeline takes one step: r is what the stage method did, res
\* the PipelineResult after the step, at the position reached.
RunStep(r, res, at) ==
    /\ pipeline' = Some(r.pipeline)
    /\ stage' = Some(r.stage)
    /\ run' = Some([at |-> at, result |-> res])
    /\ UNCHANGED <<pc, rng, params, seed, scale, total_beats, melody,
                   current_time, motifs_used, pattern_counts, motif, kept,
                   best_melody, best_score, iter, max_iterations,
                   best_is_input, result, ref,
                   entry, presets, genre, held, other, call, ret>>

\* run_full_pipeline: the result object and stage 1.
RunMelody ==
    /\ pipeline /= None /\ NoRun
    /\ \E o \in MelodyOutcomes :
          LET r == stage_melody(pipeline[1], o)
              res == [PipelineResult EXCEPT !.stages = <<r.stage>>]
          IN  IF ~Completed(r.stage)
              THEN RunStep(r, [res EXCEPT !.errors = Append(@, "Melody failed")],
                           "returned")
              ELSE RunStep(r, res, "arrangement")

\* run_full_pipeline: stage 2.
RunArrangement ==
    /\ run /= None /\ run[1].at = "arrangement"
    /\ \E o \in ArrangementOutcomes :
          LET r == stage_arrangement(pipeline[1], o)
              res == [run[1].result EXCEPT !.stages = Append(@, r.stage)]
          IN  IF ~Completed(r.stage)
              THEN RunStep(r, [res EXCEPT !.errors = Append(@, "Arrangement failed")],
                           "returned")
              ELSE RunStep(r, res, "production")

\* run_full_pipeline: stage 3 and the return.
RunProduction ==
    /\ run /= None /\ run[1].at = "production"
    /\ \E o \in ProductionOutcomes :
          LET r == stage_production(pipeline[1], o)
              res == [run[1].result EXCEPT !.stages = Append(@, r.stage)]
              arrangement_stage == run[1].result.stages[2]
          IN  IF ~Completed(r.stage)
              THEN RunStep(r, [res EXCEPT
                                 !.errors = Append(@, "Production failed"),
                                 !.final_midi_path = arrangement_stage.midi_path],
                           "returned")
              ELSE RunStep(r, [res EXCEPT
                                 !.final_midi_path = arrangement_stage.midi_path,
                                 !.final_audio_path = r.stage.audio_path,
                                 !.success = TRUE],
                           "returned")

SpecPipeline ==
    Init /\ [][NewPipeline \/ StageMelody \/ StageArrangement \/ StageProduction
                 \/ RunMelody \/ RunArrangement \/ RunProduction]_vars

(***************************************************************************)
(* Single functions applied to inputs drawn from bounded sets.  While a    *)
(* function is applied on its own, pc = "lab" and the engine is at rest.   *)
(***************************************************************************)
EngineAtRest ==
    /\ pc = "lab"
    /\ rng = 0
    /\ params = MelodyParams
    /\ seed = None
    /\ scale = <<>>
    /\ total_beats = 0
    /\ melody = NoMelody
    /\ current_time = 0
    /\ motifs_used = <<>>
    /\ pattern_counts = <<>>
    /\ motif = Motif(<<>>, <<>>)
    /\ kept = FALSE
    /\ best_melody = NoMelody
    /\ best_score = <<0, 1>>
    /\ iter = 0
    /\ max_iterations = 0
    /\ best_is_input = FALSE
    /\ result = None
    /\ ref = None
    /\ entry = NoEntry
    /\ presets = GENRE_PRESETS
    /\ genre = None
    /\ held = None
    /\ other = None
    /\ pipeline = None
    /\ stage = None
    /\ run = None

\* One raw value for each outcome of a choice among n.
ChoiceSamples(n) == {(k * RandRes + n - 1) \div n : k \in 0..(n - 1)}

\* ---- get_scale_notes -------------------------------------------------
RootNames == DOMAIN NOTE_MAP \cup {"Z", "c", ""}

ModeNames == DOMAIN SCALES \cup {"bogus", "Major"}

InitScale ==
    /\ EngineAtRest
    /\ call \in [fn : {"get_scale_notes"}, root : RootNames, mode : ModeNames,
                  octave : 3..MaxOctave]
    /\ ret = None

ApplyScale ==
    /\ pc = "lab" /\ call.fn = "get_scale_notes" /\ ret = None
    /\ ret' = Some(get_scale_notes(call.root, call.mode, call.octave))
    /\ UNCHANGED <<engineVars, call>>

SpecScale == InitScale /\ [][ApplyScale]_vars

\* ---- generate_contour ------------------------------------------------
ArchLength == 8

OtherLength == 6

ContourChoices(contour_type) ==
    CASE contour_type = "arch" -> 3
      [] contour_type = "wave" -> 2
      [] OTHER -> 4

InitContour ==
    /\ EngineAtRest
    /\ \E ct \in {ContourList[i] : i \in DOMAIN ContourList} :
          LET length == IF ct = "arch" THEN ArchLength ELSE OtherLength
          IN  \E d \in [1..length -> ChoiceSamples(ContourChoices(ct))] :
                call = [fn |-> "generate_contour", contour_type |-> ct,
                        length |-> length, draws |-> d]
    /\ ret = None

ApplyContour ==
    /\ pc = "lab" /\ call.fn = "generate_contour" /\ ret = None
    /\ ret' = Some(generate_contour(call.contour_type, call.length, call.draws))
    /\ UNCHANGED <<engineVars, call>>

SpecContour == InitContour /\ [][ApplyContour]_vars

\* ---- calculate_uniqueness --------------------------------------------
LabPitches == {60, 62, 64}

\* A note list with the given pitches, one beat apart.
LabNotes(pitches, base) ==
    [i \in 1..Len(pitches) |->
        MelodyNote(pitches[i], base + (i - 1) * TicksPerBeat,
                   (TicksPerBeat \div 4) * i, 70 + 5 * i)]

PitchLists(n) == UNION {[1..k -> LabPitches] : k \in 0..n}

InitUniqueness ==
    /\ EngineAtRest
    /\ \E ps \in PitchLists(MaxLabNotes + 1) :
          call = [fn |-> "calculate_uniqueness",
                  melody |-> Melody(LabNotes(ps, 0), <<>>, MelodyParams, <<0, 1>>)]
    /\ ret = None

ApplyUniqueness ==
    /\ pc = "lab" /\ call.fn = "calculate_uniqueness" /\ ret = None
    /\ ret' = Some(calculate_uniqueness(call.melody))
    /\ UNCHANGED <<engineVars, call>>

SpecUniqueness == InitUniqueness /\ [][ApplyUniqueness]_vars

\* The engine together with calculate_uniqueness on its own.
SpecScore == (Init \/ InitUniqueness) /\ [][Next \/ ApplyUniqueness]_vars

\* ---- develop_motif ---------------------------------------------------
MaxLabMotif == 3    \* longest source motif handed to develop_motif

LabScales ==
    {<<60>>, <<60, 62>>, get_scale_notes("C", "major", 5),
     get_scale_notes("A", "pentatonic_minor", 4)}

\* The draws handed to a development that draws (VARIED): constant
\* sequences, one for each outcome of the choice among 4, and a mixed one.
LabDraws(n) ==
    {[i \in 1..n |-> x] : x \in ChoiceSamples(4)}
        \cup {[i \in 1..n |-> ((i * 7) % 4) * (RandRes \div 4)]}

InitDevelop ==
    /\ EngineAtRest
    /\ \E ps \in UNION {[1..k -> {58, 61, 64}] : k \in 0..MaxLabMotif},
          base \in {0, TicksPerBeat \div 2},
          sc \in LabScales,
          st \in {0, 10 * TicksPerBeat},
          dv \in {MotifDevelopmentList[i] : i \in DOMAIN MotifDevelopmentList} :
          \E tr \in (IF dv = "transposed" THEN {0, 2, 4, 5, 7, -3} ELSE {0}),
             d \in (IF dv = "varied" THEN LabDraws(2 * MaxLabMotif + 2) ELSE {<<>>}) :
                call = [fn |-> "develop_motif",
                        motif |-> Motif(LabNotes(ps, base), Intervals(LabNotes(ps, base))),
                        development |-> dv, scale |-> sc, start_time |-> st,
                        transposition |-> tr, draws |-> d]
    /\ ret = None

ApplyDevelop ==
    /\ pc = "lab" /\ call.fn = "develop_motif" /\ ret = None
    /\ ret' = Some(develop_motif(call.motif, call.development, call.scale,
                                 call.start_time, call.transposition,
                                 call.draws).motif)
    /\ UNCHANGED <<engineVars, call>>

SpecDevelop == InitDevelop /\ [][ApplyDevelop]_vars

\* ---- Motif.get_hash ---------------------------------------------------
HashPitches == {58, 61, 64, 67}

\* A note list with the given pitches and the given timing and loudness.
TimedNotes(pitches, base, step, velocity) ==
    [i \in 1..Len(pitches) |->
        MelodyNote(pitches[i], base + (i - 1) * step, step \div 2, velocity)]

\* Two motifs: the first on the beat, the second placed, spaced and struck
\* differently.
InitHash ==
    /\ EngineAtRest
    /\ \E ps, qs \in UNION {[1..k -> HashPitches] : k \in 0..MaxLabMotif} :
          call = [fn |-> "get_hash",
                  a |-> Motif(TimedNotes(ps, 0, TicksPerBeat, 80), <<>>),
                  b |-> Motif(TimedNotes(qs, 3 * TicksPerBeat, TicksPerBeat \div 2, 45),
                              Intervals(TimedNotes(qs, 0, 1, 0)))]
    /\ ret = None

ApplyHash ==
    /\ pc = "lab" /\ call.fn = "get_hash" /\ ret = None
    /\ ret' = Some(<<get_hash(call.a), get_hash(call.b)>>)
    /\ UNCHANGED <<engineVars, call>>

SpecHash == InitHash /\ [][ApplyHash]_vars

\* ---- optimize_melody --------------------------------------------------
MaxBudget == 3      \* largest max_iterations handed to optimize_melody

\* Pitches of the scale of the default parameters (C major, octave 5).
OptimizePitches == {72, 74}

\* optimize_melody(m, n) called on its own: any state of the generator,
\* any melody of up to MaxLabNotes notes, any budget up to MaxBudget.
InitOptimize ==
    /\ InitEngine
    /\ \E ps \in UNION {[1..k -> OptimizePitches] : k \in 0..MaxLabNotes},
          n \in 0..MaxBudget :
          call = [fn |-> "optimize_melody",
                  melody |-> Melody(LabNotes(ps, 0), <<>>, MelodyParams, <<0, 1>>),
                  max_iterations |-> n]
    /\ ret = None

\* optimize_melody(call.melody, call.max_iterations) up to its for loop.
CallOptimize ==
    /\ pc = "idle" /\ call /= None /\ call.fn = "optimize_melody"
    /\ melody' = call.melody
    /\ best_melody' = call.melody
    /\ best_score' = calculate_uniqueness(call.melody)
    /\ iter' = 0
    /\ max_iterations' = call.max_iterations
    /\ best_is_input' = TRUE
    /\ pc' = "optimize"
    /\ UNCHANGED <<rng, params, seed, scale, total_beats, current_time,
                   motifs_used, pattern_counts, motif, kept, result, ref,
                   entry, call, ret, restVars>>

SpecOptimize == InitOptimize /\ [][CallOptimize \/ OptimizeStep \/ Return]_vars

\* generate_melody together with optimize_melody on its own.
SpecReturned == (Init \/ InitOptimize) /\ [][Next \/ CallOptimize]_vars

(***************************************************************************)
(* Properties                                                              *)
(***************************************************************************)
\* A score lies in [0.0, 1.0].
InUnit(f) == f[2] > 0 /\ 0 <= f[1] /\ f[1] <= f[2]

\* Number of motifs of the list whose hash is h.
WithHash(ms, h) == Cardinality({j \in DOMAIN ms : get_hash(ms[j]) = h})

\* C1: two calls of generate_melody with the same params and the same
\* explicit seed return the same note sequence (pitch, start_time, duration
\* and velocity at every index) and the same uniqueness_score, whatever the
\* state of the random generator before each call.  ref holds the first
\* seeded call that completed; every later call with its params and seed
\* is compared with it.
C1_Determinism ==
    (pc = "done" /\ seed /= None /\ ref /= None
        /\ ref[1].params = params /\ ref[1].seed = seed)
    => /\ result[1].notes = ref[1].result.notes
       /\ result[1].uniqueness_score = ref[1].result.uniqueness_score

\* A repeated seeded call has completed, and the generator was not in the
\* seeded state when it was entered.
C1_Witness ==
    /\ pc = "done" /\ seed /= None /\ entry.repeat /\ entry.reseeded
    /\ result[1].notes /= <<>>
    /\ result[1].notes = ref[1].result.notes

\* C2: in the melody under construction and in the melody returned, no
\* hash is the hash of more than max_repetition of the recorded motifs.
C2_RepetitionCap ==
    /\ \A i \in DOMAIN melody.motifs :
          WithHash(melody.motifs, get_hash(melody.motifs[i])) <= params.max_repetition
    /\ result /= None =>
          \A i \in DOMAIN result[1].motifs :
              WithHash(result[1].motifs, get_hash(result[1].motifs[i]))
                  <= params.max_repetition

\* A melody was returned after a candidate beyond the cap was discarded:
\* the ledger counts more occurrences of a hash than the melody records.
C2_Witness ==
    /\ pc = "done"
    /\ \E h \in DOMAIN pattern_counts :
          /\ pattern_counts[h] > params.max_repetition
          /\ WithHash(result[1].motifs, h) = params.max_repetition

\* C3: calculate_uniqueness of any note list lies in [0.0, 1.0], and so do
\* the score the optimizer tracks and the uniqueness_score of the melody
\* generate_melody returns.
C3_ScoreBounds ==
    /\ (pc = "lab" /\ ret /= None) => InUnit(ret[1])
    /\ pc \in {"optimize", "done"} => InUnit(best_score)
    /\ result /= None => InUnit(result[1].uniqueness_score)

\* A returned melody with repeated patterns: its score is strictly
\* between 0 and 1.
C3_Witness ==
    /\ pc = "done"
    /\ Len(result[1].notes) >= 4
    /\ FracLess(<<0, 1>>, result[1].uniqueness_score)
    /\ FracLess(result[1].uniqueness_score, <<1, 1>>)

\* C4: for a melody of 0, 1, 2 or 3 notes calculate_uniqueness returns
\* exactly 1.0 and reads no note outside the list.
C4_FewNotes ==
    (pc = "lab" /\ ret /= None /\ Len(call.melody.notes) < 4)
    => /\ ret[1] = <<1, 1>>
       /\ UniquenessReads(call.melody.notes) \subseteq DOMAIN call.melody.notes

\* calculate_uniqueness has returned for a melody of exactly 3 notes.
C4_Witness ==
    pc = "lab" /\ ret /= None /\ Len(call.melody.notes) = 3

\* C5: for a known root and a known mode the scale is, in table order,
\* NOTE_MAP[root] + 12 * (octave - 4) + d for each offset d of SCALES[mode];
\* C major in octave 4 is 60 62 64 65 67 69 71; one octave up is 12 higher.
C5_ScaleMapping ==
    (pc = "lab" /\ ret /= None
        /\ call.root \in DOMAIN NOTE_MAP /\ call.mode \in DOMAIN SCALES)
    => /\ Len(ret[1]) = Len(SCALES[call.mode])
       /\ \A i \in DOMAIN ret[1] :
             /\ ret[1][i] = NOTE_MAP[call.root] + 12 * (call.octave - 4)
                                + SCALES[call.mode][i]
             /\ get_scale_notes(call.root, call.mode, call.octave + 1)[i]
                    = ret[1][i] + 12
       /\ (call.root = "C" /\ call.mode = "major" /\ call.octave = 4)
             => ret[1] = <<60, 62, 64, 65, 67, 69, 71>>

\* get_scale_notes("C", "major", 4) has returned.
C5_Witness ==
    /\ pc = "lab" /\ ret /= None
    /\ call.root = "C" /\ call.mode = "major" /\ call.octave = 4
    /\ ret[1][1] = 60

\* C6: an unknown root is read as C (60 in octave 4) and an unknown mode
\* as the major table 0 2 4 5 7 9 11, each on its own and both together;
\* the call returns a scale in every case.
C6_Fallback ==
    (pc = "lab" /\ ret /= None)
    => LET base == 12 * (call.octave - 4)
           major == <<0, 2, 4, 5, 7, 9, 11>>
           badRoot == call.root \notin DOMAIN NOTE_MAP
           badMode == call.mode \notin DOMAIN SCALES
       IN  /\ (badRoot /\ badMode) =>
                 ret[1] = [i \in 1..7 |-> 60 + base + major[i]]
           /\ (badRoot /\ ~badMode) =>
                 ret[1] = [i \in 1..Len(SCALES[call.mode]) |->
                              60 + base + SCALES[call.mode][i]]
           /\ (~badRoot /\ badMode) =>
                 ret[1] = [i \in 1..7 |-> NOTE_MAP[call.root] + base + major[i]]

\* get_scale_notes("Z", "bogus", o) has returned a scale.
C6_Witness ==
    /\ pc = "lab" /\ ret /= None
    /\ call.root = "Z" /\ call.mode = "bogus"
    /\ Len(ret[1]) = 7

\* C7: an arch contour of length 8 has 8 intervals; the first 4 sum to
\* more than 0 and the last 4 to less than 0, whatever is drawn.
C7_ArchShape ==
    (pc = "lab" /\ ret /= None /\ call.contour_type = "arch" /\ call.length = 8)
    => /\ Len(ret[1]) = 8
       /\ SumSeq(SubSeq(ret[1], 1, 4)) > 0
       /\ SumSeq(SubSeq(ret[1], 5, 8)) < 0

\* An arch of length 8 with the smallest rise and the smallest fall.
C7_Witness ==
    /\ pc = "lab" /\ ret /= None /\ call.contour_type = "arch" /\ call.length = 8
    /\ SumSeq(SubSeq(ret[1], 1, 4)) = 4
    /\ SumSeq(SubSeq(ret[1], 5, 8)) = -4

\* C8: a TRANSPOSED development has as many notes as its source, every
\* pitch is a member of the scale, and the first note starts at start_time.
C8_TransposedInScale ==
    (pc = "lab" /\ ret /= None /\ call.development = "transposed")
    => /\ Len(ret[1].notes) = Len(call.motif.notes)
       /\ \A i \in DOMAIN ret[1].notes :
             \E j \in DOMAIN call.scale : ret[1].notes[i].pitch = call.scale[j]
       /\ ret[1].notes /= <<>> => ret[1].notes[1].start_time = call.start_time

\* A source of 3 notes, none of them in the scale, transposed by 4.
C8_Witness ==
    /\ pc = "lab" /\ ret /= None /\ call.development = "transposed"
    /\ call.transposition = 4 /\ Len(ret[1].notes) = 3
    /\ call.start_time > 0
    /\ \A i \in DOMAIN call.motif.notes :
          \A j \in DOMAIN call.scale :
              call.motif.notes[i].pitch + 4 /= call.scale[j]

\* C9: with at least one beat to fill, max_repetition >= 1 and
\* motif_length >= 1, the returned melody has at least motif_length notes.
C9_NonEmpty ==
    (pc = "done" /\ TotalBeats(params) >= 1 /\ params.max_repetition >= 1
        /\ params.motif_length >= 1)
    => Len(result[1].notes) >= params.motif_length

\* A melody was returned that holds the notes of a single motif only.
C9_Witness ==
    /\ pc = "done" /\ TotalBeats(params) >= 1 /\ params.max_repetition >= 1
    /\ params.motif_length >= 1
    /\ Len(result[1].notes) = params.motif_length

AllNotes(ms) == UNION {{ms[i].notes[j] : j \in DOMAIN ms[i].notes} : i \in DOMAIN ms}

NotesOf(m) == {m.notes[j] : j \in DOMAIN m.notes}

\* C10: with legato > 0 and velocity_range within [0,127], every note of
\* every generated or developed motif, of the melody under construction
\* and of the melody returned has duration > 0 and velocity in [0,127].
C10_NoteRanges ==
    (pc \in {"loop", "optimize", "done"} /\ params.legato > 0
        /\ 0 <= params.velocity_range[1] /\ params.velocity_range[2] <= 127)
    => \A n \in AllNotes(motifs_used) \cup NotesOf(motif) \cup NotesOf(melody)
                 \cup NotesOf(best_melody)
                 \cup (IF result /= None THEN NotesOf(result[1]) ELSE {}) :
          n.duration > 0 /\ n.velocity >= 0 /\ n.velocity <= 127

\* A melody was returned that holds a note of a DIMINISHED development
\* (shorter than any generated note) and a note of the lowest velocity of
\* the range.
C10_Witness ==
    /\ pc = "done" /\ params.legato > 0
    /\ \E n \in NotesOf(result[1]) :
          n.duration < NoteDuration(2, params)
    /\ \E n \in NotesOf(result[1]) : n.velocity = params.velocity_range[1]

\* C11: for every draw of generate_contour with length 6, a DESCENDING
\* contour has interval sum < 0 and an ASCENDING contour has interval
\* sum > 0.
C11_DirectionalSum ==
    (pc = "lab" /\ ret /= None /\ call.length = 6)
    => /\ call.contour_type = "descending" => SumSeq(ret[1]) < 0
       /\ call.contour_type = "ascending" => SumSeq(ret[1]) > 0

\* C15: generate_melody with duration_seconds = 0 runs to its return for
\* any seed: the while loop never runs, the optimizer works on an empty
\* note list, and the melody returned has no notes, no motifs and a
\* uniqueness_score of 1.0.
C15_ZeroDuration ==
    (pc \in {"loop", "optimize", "done"} /\ params.duration_seconds = 0)
    => /\ melody.notes = <<>> /\ melody.motifs = <<>>
       /\ pc = "loop" => ~(current_time < total_beats * TicksPerBeat)
       /\ pc = "optimize" => best_melody.notes = <<>> /\ best_score = <<1, 1>>
       /\ pc = "done" => /\ result[1].notes = <<>>
                         /\ result[1].motifs = <<>>
                         /\ result[1].uniqueness_score = <<1, 1>>

\* A call with duration_seconds = 0 and a seed has returned: the initial
\* motif was drawn and each of the optimizer's iterations drew twice.
C15_Witness ==
    /\ pc = "done" /\ params.duration_seconds = 0 /\ seed /= None
    /\ result[1].notes = <<>>
    /\ iter = MaxIterations
    /\ rng = RngAfter(RngSeed(seed[1]),
                      MotifDraws(params.motif_length) + 2 * MaxIterations)

\* C16: two motifs whose notes have the same sequence of consecutive pitch
\* differences have equal hashes, whatever their absolute pitches, start
\* times, durations, velocities and stored contours.
C16_HashOfIntervals ==
    (pc = "lab" /\ ret /= None
        /\ Intervals(call.a.notes) = Intervals(call.b.notes))
    => ret[1][1] = ret[1][2]

\* Two motifs of three notes, the second a transposition of the first with
\* other timing and velocity, were hashed.
C16_Witness ==
    /\ pc = "lab" /\ ret /= None
    /\ Len(call.a.notes) = 3
    /\ Intervals(call.a.notes) = Intervals(call.b.notes)
    /\ call.a.notes[1].pitch /= call.b.notes[1].pitch
    /\ call.a.notes[2].start_time /= call.b.notes[2].start_time
    /\ call.a.notes[1].velocity /= call.b.notes[1].velocity
    /\ ret[1][1] = ret[1][2]

\* Nine tenths of a score.
NineTenths(f) == Frac(9 * f[1], 10 * f[2])

\* C12: for every melody m and every iteration budget n, the
\* uniqueness_score of optimize_melody(m, n) is at least 0.9 times the
\* uniqueness score m had before the call.
C12_ScoreKept ==
    (pc = "done" /\ call /= None)
    => ~FracLess(result[1].uniqueness_score,
                 NineTenths(calculate_uniqueness(call.melody)))

\* C20: the uniqueness_score of the Melody optimize_melody returns equals
\* calculate_uniqueness of that Melody's notes, and the score the loop
\* tracks is the score of the melody it tracks, for every input melody,
\* budget and sequence of accept/reject decisions.
C20_ScoreFresh ==
    /\ pc \in {"optimize", "done"} => best_score = calculate_uniqueness(best_melody)
    /\ pc = "done" => result[1].uniqueness_score = calculate_uniqueness(result[1])

\* A melody was returned whose notes and whose score both differ from the
\* input's: a candidate of another score was accepted.
C20_Witness ==
    /\ pc = "done" /\ call /= None
    /\ result[1].notes /= call.melody.notes
    /\ result[1].uniqueness_score /= calculate_uniqueness(call.melody)
    /\ Len(result[1].notes) >= 4

\* The iteration of the for loop the optimizer is about to run.
NextIteration ==
    OptimizeIteration(melody, best_melody, best_score,
                      get_scale_notes(melody.params.root_note, melody.params.mode,
                                      melody.params.octave),
                      Stream(rng, OptimizeDraws(melody)))

\* C19: the candidate of each iteration is a clone of the current best
\* melody's notes with the sampled notes perturbed: away from the sampled
\* indices the candidate holds the notes of the best melody, so what earlier
\* iterations accepted is still there.
C19_CloneOfBest ==
    [][OptimizeStep =>
          \A i \in DOMAIN best_melody.notes :
              (\A x \in DOMAIN NextIteration.indices :
                    NextIteration.indices[x] /= i - 1)
              => NextIteration.candidate.notes[i] = best_melody.notes[i]]_vars

\* C13: after any sequence of generate_melody_for_genre calls every entry
\* of GENRE_PRESETS has the field values it was defined with, and the
\* params of a melody returned earlier have the values they had when it
\* was returned.  (A params object a caller builds is a value in the
\* model: no statement of generate_melody assigns to a field of params.)
C13_ParamsNeverMutated ==
    /\ presets = GENRE_PRESETS
    /\ held /= None => presets[held[1].genre] = held[1].params

\* C14: a call of generate_melody with an explicit seed that runs while a
\* second thread runs its own seeded call returns the note sequence and the
\* uniqueness_score it returns when run alone with that seed (ref holds
\* the result of the call run alone).
C14_ThreadsIsolated ==
    (pc = "done" /\ seed /= None /\ entry.repeat /\ other /= None)
    => /\ result[1].notes = ref[1].result.notes
       /\ result[1].uniqueness_score = ref[1].result.uniqueness_score

StageOrder == <<"melody", "arrangement", "production">>

\* C17: stage_arrangement on a pipeline without a melody returns an error
\* stage that names the missing melody and leaves pipeline.arrangement
\* unset; stage_production on a pipeline without an arrangement returns an
\* error stage that names the missing arrangement and runs no production
\* (production_result stays unset).  Neither stage writes the field it
\* checks, so the field is now what it was when the stage was entered.
C17_StageGuards ==
    stage /= None =>
       /\ (stage[1].name = "arrangement" /\ pipeline[1].melody = None)
          => /\ stage[1].status = "error"
             /\ stage[1].error = Some("No melody generated. Run stage_melody first.")
             /\ pipeline[1].arrangement = None
       /\ (stage[1].name = "production" /\ pipeline[1].arrangement = None)
          => /\ stage[1].status = "error"
             /\ stage[1].error
                    = Some("No arrangement created. Run stage_arrangement first.")
             /\ pipeline[1].production_result = None

\* stage_production was refused on a pipeline that has a melody and no
\* arrangement.
C17_Witness ==
    /\ stage /= None /\ stage[1].name = "production"
    /\ pipeline[1].melody /= None /\ pipeline[1].arrangement = None
    /\ stage[1].status = "error"

\* C18: the stages of run_full_pipeline's result are, in order, a prefix
\* of melody, arrangement, production; a stage is there only if every
\* earlier one completed; the run goes on exactly while the last stage
\* completed; success only if all three completed; final_midi_path is set
\* on return whenever the arrangement stage completed.
C18_RunOrder ==
    run /= None =>
       LET res == run[1].result
           n == Len(res.stages)
       IN  /\ n >= 1 /\ n <= 3
           /\ \A i \in 1..n : res.stages[i].name = StageOrder[i]
           /\ \A i \in 1..(n - 1) : res.stages[i].status = "completed"
           /\ run[1].at = "arrangement"
                 => n = 1 /\ res.stages[1].status = "completed"
           /\ run[1].at = "production"
                 => n = 2 /\ res.stages[2].status = "completed"
           /\ run[1].at = "returned"
                 => n = 3 \/ res.stages[n].status /= "completed"
           /\ res.success
                 => n = 3 /\ \A i \in 1..3 : res.stages[i].status = "completed"
           /\ (run[1].at = "returned" /\ n >= 2
                    /\ res.stages[2].status = "completed")
                 => res.final_midi_path /= None

\* A full run returned after melody and arrangement completed and
\* production failed: no success, but final_midi_path is set.
C18_Witness ==
    /\ run /= None /\ run[1].at = "returned"
    /\ Len(run[1].result.stages) = 3
    /\ run[1].result.stages[3].status = "error"
    /\ ~run[1].result.success
    /\ run[1].result.final_midi_path = Some("02_arrangement.mid")
    /\ run[1].result.final_audio_path = None

\* C21: the melody optimize_melody returns has as many notes as the draft,
\* and at every index its note is the draft's note or has the draft note's
\* start_time, duration and velocity and a pitch of the scale of the
\* draft's params.
C21_OnlyPitches ==
    pc = "done" =>
       LET sc == get_scale_notes(melody.params.root_note, melody.params.mode,
                                 melody.params.octave)
           returned == result[1].notes
       IN  /\ Len(returned) = Len(melody.notes)
           /\ \A i \in DOMAIN melody.notes :
                 \/ returned[i] = melody.notes[i]
                 \/ /\ returned[i].start_time = melody.notes[i].start_time
                    /\ returned[i].duration = melody.notes[i].duration
                    /\ returned[i].velocity = melody.notes[i].velocity
                    /\ \E j \in DOMAIN sc : sc[j] = returned[i].pitch

\* generate_melody returned a melody in which the optimizer moved a note
\* of the draft that was off the scale.
C21_Witness ==
    /\ pc = "done" /\ call = None
    /\ \E i \in DOMAIN melody.notes :
          /\ result[1].notes[i].pitch /= melody.notes[i].pitch
          /\ \A j \in DOMAIN scale : scale[j] /= melody.notes[i].pitch

\* Positions at which two note lists of the same length differ.
Differing(a, b) == {i \in DOMAIN a : a[i] /= b[i]}

\* C29: for a draft of n notes and any iteration budget, the melody
\* optimize_melody returns differs from the draft at no more than
\* max(1, n // 4) note positions.
C29_FewChanges ==
    pc = "done" =>
       Cardinality(Differing(melody.notes, result[1].notes))
           <= Max(1, Len(melody.notes) \div 4)

\* After more than one iteration a melody of at least 8 notes was returned
\* that differs from the draft at two positions.
C29_Witness ==
    /\ pc = "done" /\ iter >= 2
    /\ Len(melody.notes) >= 8
    /\ Cardinality(Differing(melody.notes, result[1].notes)) = 2

\* C22: optimize_melody starts from the draft; an iteration replaces the
\* tracked melody by its candidate exactly when the candidate scores
\* strictly higher than the tracked score or, failing that, the 10% draw
\* fires, and otherwise leaves it; the tracked melody is what is returned.
\* So the result is the candidate of the latest accepting iteration, or the
\* draft if there was none, whether or not a better one was seen.
C22_LastAccepted ==
    [][/\ (EnterOptimize \/ CallOptimize) => best_melody' = melody'
       /\ OptimizeStep =>
             LET draws == Stream(rng, OptimizeDraws(melody))
                 candidate == NextIteration.candidate
                 better == FracLess(best_score, calculate_uniqueness(candidate))
                 fired == ~better /\ RandomLess(draws[NextIteration.used], 10)
             IN  best_melody' = IF better \/ fired THEN candidate ELSE best_melody
       /\ Return => /\ result'[1].notes = best_melody.notes
                    /\ result'[1].motifs = best_melody.motifs]_vars

\* A melody was returned that is not the draft and scores lower than the
\* draft: the last accepted state, not the best one seen.
C22_Witness ==
    /\ pc = "done"
    /\ result[1].notes /= melody.notes
    /\ FracLess(result[1].uniqueness_score, calculate_uniqueness(melody))

\* C30: optimize_melody leaves the notes and the motifs of the Melody it was
\* given as they were (same notes, same pitches, same order) through every
\* iteration and through the return; the only field of that object that is
\* ever written is uniqueness_score, and that only by the return, when the
\* object returned is the one passed in.
C30_InputFrame ==
    [][(OptimizeStep \/ Return) =>
          /\ melody'.notes = melody.notes
          /\ melody'.motifs = melody.motifs
          /\ melody'.params = melody.params
          /\ melody'.uniqueness_score /= melody.uniqueness_score =>
                /\ pc' = "done"
                /\ best_is_input
                /\ result' = Some(melody')]_vars

\* A call returned a candidate, not its input: the input still has the score
\* it came with, and notes that differ from the returned ones.
C30_Witness ==
    /\ pc = "done"
    /\ ~best_is_input
    /\ Len(melody.notes) > 0
    /\ result[1].notes /= melody.notes
    /\ result[1].uniqueness_score /= melody.uniqueness_score

\* C23: every iteration of the generate_melody loop adds one to the ledger
\* count of the hash of its candidate motif, leaves the other counts alone
\* and moves current_time forward, kept or not; a candidate whose new count
\* is above max_repetition adds no note and no motif to the melody.
C23_LedgerAndTime ==
    [][(LoopDevelop \/ LoopOriginate) =>
          LET h == get_hash(motif')
          IN  /\ h \in DOMAIN pattern_counts'
              /\ pattern_counts'[h] = CountOf(pattern_counts, h) + 1
              /\ \A g \in DOMAIN pattern_counts \ {h} :
                     /\ g \in DOMAIN pattern_counts'
                     /\ pattern_counts'[g] = pattern_counts[g]
              /\ DOMAIN pattern_counts' = DOMAIN pattern_counts \cup {h}
              /\ current_time' > current_time
              /\ pattern_counts'[h] > params.max_repetition =>
                     /\ melody'.notes = melody.notes
                     /\ melody'.motifs = melody.motifs]_vars

\* A non-empty candidate has just been discarded for the second time: its
\* count is two above a cap and the melody does not end with its notes.
C23_Witness ==
    /\ pc = "loop"
    /\ ~kept
    /\ Len(motif.notes) > 0
    /\ current_time > 0
    /\ get_hash(motif) \in DOMAIN pattern_counts
    /\ pattern_counts[get_hash(motif)] > params.max_repetition + 1

\* The number of iterations the loop has run: every iteration adds one to
\* exactly one count of the ledger.
RECURSIVE SumCounts(_, _)
SumCounts(counts, hashes) ==
    IF hashes = {} THEN 0
    ELSE LET h == CHOOSE x \in hashes : TRUE
         IN  counts[h] + SumCounts(counts, hashes \ {h})

Iterations == SumCounts(pattern_counts, DOMAIN pattern_counts)

CeilDiv(a, b) == (a + b - 1) \div b

\* C24: every iteration of the generate_melody loop moves current_time
\* forward by at least one measure (time_signature[0] beats), whatever the
\* candidate motif; the loop therefore never runs more than
\* ceil(total_beats / time_signature[0]) iterations, and the optimizer that
\* follows counts from 0 up to its budget and returns exactly there.
C24_Terminates ==
    [][LET measure == params.time_signature[1]
       IN  /\ (LoopDevelop \/ LoopOriginate) =>
                 /\ measure >= 1
                 /\ current_time' >= current_time + measure * TicksPerBeat
                 /\ Iterations' = Iterations + 1
                 /\ Iterations' <= CeilDiv(total_beats, measure)
           /\ EnterOptimize => iter' = 0 /\ max_iterations' = MaxIterations
           /\ OptimizeStep => iter' = iter + 1 /\ iter' <= max_iterations
           /\ Return => iter = max_iterations]_vars

\* The loop has ended after the greatest number of iterations the bound
\* allows, on candidates without notes, and the optimizer has ended too.
C24_Witness ==
    /\ pc = "done"
    /\ total_beats > 0
    /\ Len(motif.notes) = 0
    /\ Iterations = CeilDiv(total_beats, params.time_signature[1])
    /\ Iterations > 1
    /\ iter = MaxIterations

\* C27: develop_motif with RETROGRADE returns the notes of the source in
\* reversed order, each with the pitch, duration and velocity it had; the
\* first returned note starts at start_time, every later one where the note
\* before it ends, and the durations add up to the same total.
C27_Retrograde ==
    (ret /= None /\ call.development = "retrograde") =>
        LET src == call.motif.notes
            out == ret[1].notes
            n == Len(src)
        IN  /\ Len(out) = n
            /\ \A i \in 1..n :
                   /\ out[i].pitch = src[n + 1 - i].pitch
                   /\ out[i].duration = src[n + 1 - i].duration
                   /\ out[i].velocity = src[n + 1 - i].velocity
            /\ n > 0 => out[1].start_time = call.start_time
            /\ \A i \in 2..n :
                   out[i].start_time = out[i - 1].start_time + out[i - 1].duration
            /\ SumSeq([i \in 1..n |-> out[i].duration])
                  = SumSeq([i \in 1..n |-> src[i].duration])

\* A three-note source with different outer pitches, reversed and placed
\* at a later start time than its own.
C27_Witness ==
    /\ ret /= None
    /\ call.development = "retrograde"
    /\ Len(call.motif.notes) = MaxLabMotif
    /\ call.motif.notes[1].pitch /= call.motif.notes[MaxLabMotif].pitch
    /\ call.start_time > call.motif.notes[1].start_time
    /\ ret[1].notes[1].pitch = call.motif.notes[MaxLabMotif].pitch

\* C28: for a melody of n >= 4 notes calculate_uniqueness is the number of
\* distinct triples of consecutive pitch differences among the n-3 windows
\* of four notes, divided by n-3: it is 1 exactly when no two windows have
\* the same triple, and below 1 as soon as two windows share one.
C28_DistinctOverWindows ==
    (ret /= None /\ Len(call.melody.notes) >= 4) =>
        LET notes == call.melody.notes
            windows == 1..(Len(notes) - 3)
            Diff(i) == notes[i + 1].pitch - notes[i].pitch
            Same(i, j) == \A k \in 0..2 : Diff(i + k) = Diff(j + k)
            \* a window counts if no earlier window has its triple
            distinct == Cardinality({i \in windows :
                                       \A j \in 1..(i - 1) : ~Same(i, j)})
            shared == \E i, j \in windows : i /= j /\ Same(i, j)
            score == ret[1]
        IN  /\ score[2] > 0
            /\ score[1] * Cardinality(windows) = distinct * score[2]
            /\ (score = <<1, 1>>) <=> ~shared
            /\ shared => FracLess(score, <<1, 1>>)

\* Three windows of a melody that moves, the first and the last with the
\* same triple: two of the three are distinct.
C28_Witness ==
    /\ ret /= None
    /\ Len(call.melody.notes) = 6
    /\ call.melody.notes[1].pitch /= call.melody.notes[2].pitch
    /\ ret[1] = <<2, 3>>

\* C25: a motif developed with TRANSPOSED has the identity hash of its
\* source, so the loop of generate_melody counts it in the ledger bucket
\* of the source motif.
C25_TransposedSameBucket ==
    [][LoopDevelop =>
          LET draws == Stream(rng, LoopDraws(params))
              source_motif == Choice(motifs_used, draws[2])
              development == Choice(MotifDevelopmentList, draws[3])
          IN  development = "transposed" =>
                 /\ get_hash(motif') = get_hash(source_motif)
                 /\ pattern_counts'[get_hash(source_motif)]
                       = CountOf(pattern_counts, get_hash(source_motif)) + 1]_vars

\* The interval list with every interval negated.
Negated(ivs) == [i \in 1..Len(ivs) |-> 0 - ivs[i]]

\* C26 as stated: for every source motif the motif developed with INVERTED
\* and the one developed with RETROGRADE have an interval list, and hence an
\* identity hash, different from the source's.
C26_AlwaysNewPattern ==
    (ret /= None /\ call.development \in {"inverted", "retrograde"}) =>
        /\ Intervals(ret[1].notes) /= Intervals(call.motif.notes)
        /\ get_hash(ret[1]) /= get_hash(call.motif)

\* C26 amended: the interval list of the motif developed with INVERTED is
\* the source's list negated, and that of the motif developed with
\* RETROGRADE is the source's list negated and reversed.  The list differs
\* from the source's exactly when the source has a non-zero interval
\* (INVERTED), or an interval that is not the negation of the one mirrored
\* to it from the other end (RETROGRADE); when it does not differ, the
\* identity hash is the source's and the motif is no new pattern.
C26_NegatedIntervals ==
    (ret /= None /\ call.development \in {"inverted", "retrograde"}) =>
        LET old == Intervals(call.motif.notes)
            new == Intervals(ret[1].notes)
            n == Len(old)
        IN  /\ call.development = "inverted" =>
                  /\ new = Negated(old)
                  /\ (new /= old) <=> (\E i \in 1..n : old[i] /= 0)
            /\ call.development = "retrograde" =>
                  /\ new = Reverse(Negated(old))
                  /\ (new /= old) <=>
                        (\E i \in 1..n : old[i] /= 0 - old[n + 1 - i])
            /\ new = old => get_hash(ret[1]) = get_hash(call.motif)

\* A source that rises and falls back by the same step, developed with
\* RETROGRADE: the result has the hash of the source.
C26_Witness ==
    /\ ret /= None
    /\ call.development = "retrograde"
    /\ Len(call.motif.notes) = 3
    /\ call.motif.notes[1].pitch /= call.motif.notes[2].pitch
    /\ get_hash(ret[1]) = get_hash(call.motif)

====
